---- MODULE Spec2Model ----
(***************************************************************************)
(* A model of combadge's declarative binding engine: marker registration,  *)
(* the binding cache and class generation of combadge/core/binder.py, and  *)
(* the asynchronous HTTPX and Zeep backends' bound methods.                *)
(***************************************************************************)
EXTENDS Integers, Sequences, FiniteSets, TLC

VARIABLES
    marks,      \* method id -> its __combadge_marks__ list (methods that carry the attribute)
    cache,      \* the lru_cache of bind_class: entries [key, impl], least recently used first
    classes,    \* every BoundService class generated so far; a class's identity is its index
    ret,        \* how the latest sequential bind ended: [key, impl, backend, raised]
    firstRet,   \* bound key -> the class the first bind of the key returned
    lastRet,    \* bound key -> the class the latest bind of the key returned
    useOrder,   \* the keys bound since the cache was last empty, by latest bind, oldest first
    gapped,     \* keys with MaxSize or more other keys, or a cache_clear, between two binds
    threads,    \* the threads of a concurrent first-time bind: [pc, key, impl, todo, got]
    services,   \* the bound services the callers hold: [impl, backend]
    calls,      \* the calls of bound methods and of binders' callables, in the order made
    lists,      \* the list objects of the requests' query_params; a list's identity is its index
    ctx,        \* backend -> request_with contexts entered and not yet exited
    log,        \* the extractions and registrations of markers made so far, in order
    held        \* a request held outside any call, and what its getters answered

vars == <<marks, cache, classes, ret, firstRet, lastRet, useOrder, gapped, threads,
          services, calls, lists, ctx, log, held>>

callVars == <<services, calls, lists, ctx>>

----------------------------------------------------------------------------
(* Bounds and program constants *)

\* @lru_cache(maxsize=100) on bind_class
MaxSize == 100

\* interfaces of the model; with two binders and one pair that is also passed in the
\* three ways that use keywords this gives 2 * NumInterfaces + 3 cache keys
NumInterfaces == 51

\* classes the sequential bind specification generates at most
MaxClasses == 106

\* bind_class.cache_clear() and the bind of a class that is no Protocol are called
\* only while at most this many classes were generated
ClearWithin == 1

\* threads of the concurrent first-time bind specification
NumThreads == 2

----------------------------------------------------------------------------
(* Interfaces, binders and backends *)

Interfaces == 1..NumInterfaces

\* the binder strategies: HttpxBackend.binder and ZeepBackend.binder
Binders == {"httpx", "zeep"}

\* backend instances; bind() reads the binder off the instance
Backends == {"b1", "b2", "z1"}

binder(backend) == IF backend = "z1" THEN "zeep" ELSE "httpx"

\* a class that is no Protocol and no ABC: its metaclass is not ABCMeta
PlainClass == 0

ABCMeta(from_protocol) == from_protocol # PlainClass

\* how a call passes the two arguments of bind_class: both by position; both by
\* keyword, from_protocol first; both by keyword, method_binder first; from_protocol
\* by position and method_binder by keyword
Passings == {"positional", "keyword", "keyword_swapped", "binder_keyword"}

\* functools._make_key: the key of a call is made of the positional arguments and of
\* the keyword arguments in the order the call passed them, so the same two values
\* passed another way make another key
make_key(from_protocol, method_binder, passed) == <<from_protocol, method_binder, passed>>

Keys == {make_key(i, b, p) : i \in Interfaces, b \in Binders, p \in Passings}

NumKeys == 2 * NumInterfaces + 3

NoKey == make_key(PlainClass, "none", "none")

\* how many times one thread of the concurrent specification may call bind_class
BindsPerThread == 2

\* the n-th key in the order in which the sequential specification first binds keys:
\* the second, third and fourth are the first with its arguments passed in the ways
\* that use keywords, the others pass them by position
KeyOf(n) ==
    CASE n = 2 -> make_key(1, "httpx", "keyword")
      [] n = 3 -> make_key(1, "httpx", "keyword_swapped")
      [] n = 4 -> make_key(1, "httpx", "binder_keyword")
      [] OTHER ->
           LET m == IF n = 1 THEN 1 ELSE n - 3
           IN make_key((m + 1) \div 2, IF m % 2 = 1 THEN "httpx" ELSE "zeep", "positional")

SeqToSet(s) == {s[i] : i \in 1..Len(s)}

Remove(s, x) == SelectSeq(s, LAMBDA e : e # x)

IndexOf(s, x) == CHOOSE i \in 1..Len(s) : s[i] = x

----------------------------------------------------------------------------
(* Interface descriptions *)

\* A member of a protocol class: its name (a sequence of characters), whether it is
\* callable, what it is (a plain function, which takes the instance as its first
\* parameter whatever that parameter is called, a static method, a class method or
\* a plain attribute), and the parameter names inspect.signature gives for it.  Every interface of the model
\* has this shape: a private helper, the bind classmethod inherited from
\* SupportsService (its signature has no receiver), service methods and a plain
\* attribute; the REST method h sends form fields, two of them under the same name.  The list is sorted by name, as inspect.getmembers returns it.
\* A service method also has parameter annotations (a query parameter marker or none)
\* and a return annotation, a success shape or a fault shape.
NoMark == [kind |-> "none", name |-> ""]

QueryParameterMark(name) == [kind |-> "query", name |-> name]

\* the form field marker: the parameter's value is appended to the form field of the name
FormFieldMark(name) == [kind |-> "form", name |-> name]

ReturnType == [annotation |-> "Union[S, F]", success |-> "S", fault |-> "F"]

NoAnnotations == <<>>

RestMembers ==
    << [name |-> <<"_", "h">>, callable |-> TRUE, kind |-> "function", params |-> <<"self">>,
        annotations |-> NoAnnotations, returns |-> ReturnType],
       [name |-> <<"b", "i", "n", "d">>, callable |-> TRUE, kind |-> "classmethod",
        params |-> <<"to_backend">>,
        annotations |-> NoAnnotations, returns |-> ReturnType],
       [name |-> <<"f">>, callable |-> TRUE, kind |-> "function",
        params |-> <<"self", "a", "b", "c">>,
        annotations |-> [a |-> QueryParameterMark("qa"), b |-> NoMark,
                         c |-> QueryParameterMark("qc")],
        returns |-> ReturnType],
       [name |-> <<"g">>, callable |-> TRUE, kind |-> "function",
        params |-> <<"self", "a">>,
        annotations |-> [a |-> QueryParameterMark("qa")], returns |-> ReturnType],
       [name |-> <<"h">>, callable |-> TRUE, kind |-> "function",
        params |-> <<"self", "x", "y", "z", "q">>,
        annotations |-> [x |-> FormFieldMark("n"), y |-> FormFieldMark("n"),
                         z |-> FormFieldMark("m"), q |-> QueryParameterMark("q")],
        returns |-> ReturnType],
       [name |-> <<"v">>, callable |-> FALSE, kind |-> "attribute", params |-> <<>>,
        annotations |-> NoAnnotations, returns |-> ReturnType] >>

\* the request body marker of the SOAP family
BodyMark == [kind |-> "body", name |-> ""]

\* A SOAP interface: the same member names, the methods take the request body.
SoapMembers ==
    << [name |-> <<"_", "h">>, callable |-> TRUE, kind |-> "function", params |-> <<"self">>,
        annotations |-> NoAnnotations, returns |-> ReturnType],
       [name |-> <<"b", "i", "n", "d">>, callable |-> TRUE, kind |-> "classmethod",
        params |-> <<"to_backend">>,
        annotations |-> NoAnnotations, returns |-> ReturnType],
       [name |-> <<"f">>, callable |-> TRUE, kind |-> "function",
        params |-> <<"self", "a">>,
        annotations |-> [a |-> BodyMark], returns |-> ReturnType],
       [name |-> <<"g">>, callable |-> TRUE, kind |-> "function",
        params |-> <<"self", "a">>,
        annotations |-> [a |-> BodyMark], returns |-> ReturnType],
       [name |-> <<"v">>, callable |-> FALSE, kind |-> "attribute", params |-> <<>>,
        annotations |-> NoAnnotations, returns |-> ReturnType] >>

\* A REST interface with two more members: a static method s(a, self), which has no
\* receiver and a second parameter that happens to be named self, and a method
\* t(this, a), whose receiver is not named self.
OddMembers ==
    SubSeq(RestMembers, 1, 5)
    \o << [name |-> <<"s">>, callable |-> TRUE, kind |-> "staticmethod",
           params |-> <<"a", "self">>, annotations |-> [a |-> NoMark, self |-> NoMark],
           returns |-> ReturnType],
          [name |-> <<"t">>, callable |-> TRUE, kind |-> "function",
           params |-> <<"this", "a">>, annotations |-> [this |-> NoMark, a |-> NoMark],
           returns |-> ReturnType] >>
    \o SubSeq(RestMembers, 6, 6)

\* interface 2 is the SOAP interface, interface 3 the one with the odd members, every
\* other one a REST interface
Members(interface) ==
    IF interface = 2 THEN SoapMembers
    ELSE IF interface = 3 THEN OddMembers
    ELSE RestMembers

MemberNamed(interface, name) ==
    CHOOSE m \in SeqToSet(Members(interface)) : m.name = name

\* name.startswith("_")
startswith_underscore(name) == Len(name) > 0 /\ name[1] = "_"

\* _enumerate_methods: the callable members whose name is not private and whose
\* signature has the receiver
_enumerate_methods(members) ==
    SelectSeq(members, LAMBDA m :
        /\ m.callable
        /\ ~startswith_underscore(m.name)
        /\ "self" \in SeqToSet(m.params))

\* the marker list a method carries (ensure_markers on a method without the attribute: [])
MarkersOf(mk, method) == IF method \in DOMAIN mk THEN mk[method] ELSE <<>>

\* an extraction that always attaches a new, empty list
ensure_markers_reset(mk, in_) ==
    [marks |-> (in_ :> <<>>) @@ mk, result |-> <<>>]

\* MethodMarker.ensure_markers(in_): the method's list is returned; a method without
\* the attribute gets an empty list attached first.  The marks after the call and the
\* content of the list returned.
ensure_markers(mk, in_) ==
    [marks |-> IF in_ \in DOMAIN mk THEN mk ELSE (in_ :> <<>>) @@ mk,
     result |-> MarkersOf(mk, in_)]

\* a registration that puts the marker in front
MethodMarker_mark_first(mk, what, self) ==
    LET e == ensure_markers(mk, what)
    IN [e.marks EXCEPT ![what] = <<self>> \o @]

\* MethodMarker.mark(what): MethodMarker.ensure_markers(what).append(self)
MethodMarker_mark(mk, what, self) ==
    LET e == ensure_markers(mk, what)
    IN [e.marks EXCEPT ![what] = Append(@, self)]

\* MethodMarker.wrap: the default returns the callable as it is; _WrapWithMethodMarker
\* puts its decorator on top.  A callable is the sequence of its layers, innermost first.
wrap(mark, layers) ==
    IF mark.kind = "wrap" THEN Append(layers, mark.dec) ELSE layers

\* the wrap hooks applied from the last marker to the first
RECURSIVE _wrap_reversed(_, _)
_wrap_reversed(layers, with_marks) ==
    IF with_marks = <<>> THEN layers
    ELSE wrap(Head(with_marks), _wrap_reversed(layers, Tail(with_marks)))

\* _wrap: every marker's wrap hook, in the order of the marker sequence
RECURSIVE _wrap(_, _)
_wrap(layers, with_marks) ==
    IF with_marks = <<>> THEN layers
    ELSE _wrap(wrap(Head(with_marks), layers), Tail(with_marks))

\* the body of bind_class's loop for one method: the binder's callable, wrapped by the
\* markers, then by validate_arguments
\* the layers of a bound method, innermost first: the binder's callable, the markers'
\* wrappers, validate_arguments
LayersValidated(method_markers) == Append(_wrap(<<"dispatch">>, method_markers), "validate")

\* the layers without validate_arguments
LayersUnvalidated(method_markers) == _wrap(<<"dispatch">>, method_markers)

Layers(method_markers) == LayersValidated(method_markers)

\* _split_response_type: the success shape and the fault shape of the return annotation
_split_response_type(return_type) == <<return_type.success, return_type.fault>>

\* the name of the first parameter of the binder's bound_method, which takes the
\* service instance: `self` in the Zeep binder, `service` in the HTTPX binder
ReceiverName(method_binder) == IF method_binder = "zeep" THEN "self" ELSE "service"

BoundMethod(interface, member, method_binder, mk) ==
    LET method == <<interface, member.name>>
        method_markers == MarkersOf(mk, method)
        split == _split_response_type(member.returns)
    IN [ method |-> method,
         binder |-> method_binder,
         markers |-> method_markers,
         return_type |-> member.returns,
         response_type |-> IF method_binder = "zeep" THEN split[1] ELSE "",
         fault_type |-> IF method_binder = "zeep" THEN split[2] ELSE "",
         receiver |-> ReceiverName(method_binder),
         layers |-> Layers(method_markers) ]

\* setattr(BoundService, name, bound_method)
AttachMethod(class, member, mk) ==
    [class EXCEPT !.attrs =
        [n \in DOMAIN @ \cup {member.name} |->
            IF n = member.name
            THEN BoundMethod(class.key[1], member, class.key[2], mk)
            ELSE @[n]]]

\* class BoundService(BaseBoundService, from_protocol): nothing attached yet
NewClass(key) == [key |-> key, attrs |-> <<>>]

RECURSIVE AttachAll(_, _, _)
AttachAll(class, todo, mk) ==
    IF todo = <<>> THEN class
    ELSE AttachAll(AttachMethod(class, Head(todo), mk), Tail(todo), mk)

\* the function under the cache: the generated class with every method attached
GenerateClass(key, mk) ==
    AttachAll(NewClass(key), _enumerate_methods(Members(key[1])), mk)

MethodNames(interface) == {m.name : m \in SeqToSet(_enumerate_methods(Members(interface)))}

Complete(class) == DOMAIN class.attrs = MethodNames(class.key[1])

----------------------------------------------------------------------------
(* The binding cache: functools.lru_cache(maxsize=100) around bind_class *)

CacheKeys(c) == {c[i].key : i \in 1..Len(c)}

\* the class cached under the key, 0 when the key is not cached
LruLookupCached(c, k) ==
    IF \E i \in 1..Len(c) : c[i].key = k
    THEN c[CHOOSE i \in 1..Len(c) : c[i].key = k].impl
    ELSE 0

\* a cache that never finds anything
LruLookupNothing(c, k) == 0

LruLookup(c, k) == LruLookupCached(c, k)

\* a hit makes the entry the most recently used one
LruHit(c, k) ==
    LET i == CHOOSE j \in 1..Len(c) : c[j].key = k
    IN Append(SubSeq(c, 1, i - 1) \o SubSeq(c, i + 1, Len(c)), c[i])

\* after a miss: store the result; a full cache drops its least recently used entry.
\* When the key was added while the function ran, the cache is left as it is.
LruInsertEvictOldest(c, k, impl) ==
    IF k \in CacheKeys(c) THEN c
    ELSE IF Len(c) >= MaxSize THEN Append(Tail(c), [key |-> k, impl |-> impl])
    ELSE Append(c, [key |-> k, impl |-> impl])

LruInsert(c, k, impl) == LruInsertEvictOldest(c, k, impl)

\* lru_cache.cache_clear: the cache is emptied
cache_clear(c) == <<>>

\* bind_class(from_protocol, method_binder) run without interruption, its arguments
\* passed as `passed` says: the new cache, the new list of classes and the class
\* returned.  For a from_protocol whose metaclass is not ABCMeta the generated class
\* has no __abstractmethods__ to delete: the call ends in an AttributeError, and
\* nothing is stored or returned.
bind_class(c, cls, from_protocol, method_binder, passed, mk) ==
    LET k == make_key(from_protocol, method_binder, passed)
        hit == LruLookup(c, k)
    IN IF hit # 0
       THEN [cache |-> LruHit(c, k), classes |-> cls, impl |-> hit, raised |-> ""]
       ELSE IF ~ABCMeta(from_protocol)
       THEN [cache |-> c, classes |-> cls, impl |-> 0, raised |-> "AttributeError"]
       ELSE LET new == Len(cls) + 1
            IN [cache |-> LruInsert(c, k, new),
                classes |-> Append(cls, GenerateClass(k, mk)),
                impl |-> new, raised |-> ""]

\* BaseBoundService.__init__: the instance keeps the backend it is given
BaseBoundService(impl, backend) == [impl |-> impl, backend |-> backend]

\* bind(from_protocol, to_backend) == bind_class(from_protocol, to_backend.binder)(to_backend):
\* both arguments of bind_class are passed by position
bind(c, cls, from_protocol, to_backend, mk) ==
    LET r == bind_class(c, cls, from_protocol, binder(to_backend), "positional", mk)
    IN [cache |-> r.cache, classes |-> r.classes,
        service |-> BaseBoundService(r.impl, IF r.raised = "" THEN to_backend ELSE "none"),
        raised |-> r.raised]

----------------------------------------------------------------------------
(* Markers *)

PathMark(tpl) == [kind |-> "path", tpl |-> tpl]
RestMethodMark(verb) == [kind |-> "method", verb |-> verb]
WrapWith(dec) == [kind |-> "wrap", dec |-> dec]

\* the marker lists of the methods of interface 1, as the decorators registered them
OperationNameMethodMark(name) == [kind |-> "operation", name |-> name]

\* the marker lists of the methods of interfaces 1 (REST) and 2 (SOAP), as the
\* decorators registered them; a path template is a sequence of characters and
\* placeholders
DefaultMarks ==
    (<<1, <<"f">>>> :>
        <<RestMethodMark("GET"), PathMark(<<"/", "f", "/", "{a}">>), WrapWith("d1")>>)
    @@ (<<1, <<"g">>>> :> <<RestMethodMark("POST"), PathMark(<<"/", "g">>)>>)
    @@ (<<1, <<"h">>>> :> <<RestMethodMark("POST"), PathMark(<<"/", "h">>)>>)
    @@ (<<2, <<"f">>>> :> <<OperationNameMethodMark("F"), WrapWith("d1")>>)
    @@ (<<2, <<"g">>>> :> <<OperationNameMethodMark("G")>>)

----------------------------------------------------------------------------
(* Sequential binding: bind() called again and again by one thread *)

NoThreads == <<>>

NoResult == [kind |-> "none", value |-> ""]

\* a getter of the held request that was not called yet
NoAnswer == [asked |-> FALSE, before |-> <<>>, after |-> <<>>, result |-> NoResult]

\* no request is held outside the calls
NoRequest == [request |-> <<>>, got_url_path |-> NoAnswer, got_method |-> NoAnswer]

InitBind ==
    /\ marks = DefaultMarks
    /\ cache = <<>>
    /\ classes = <<>>
    /\ ret = [key |-> NoKey, impl |-> 0, backend |-> "none", raised |-> ""]
    /\ firstRet = <<>>
    /\ lastRet = <<>>
    /\ useOrder = <<>>
    /\ gapped = {}
    /\ threads = NoThreads
    /\ services = <<>>
    /\ calls = <<>>
    /\ lists = <<>>
    /\ ctx = [b \in Backends |-> 0]
    /\ log = <<>>
    /\ held = NoRequest

\* The sequential specification binds a key for the first time in the order KeyOf(1),
\* KeyOf(2), ... (keys are interchangeable), and may bind a key of HotKeys again at any
\* moment, so that hits, evictions and binds after an eviction all occur.  After a
\* cache_clear the order starts again at KeyOf(1).
HotKeys == {KeyOf(1)}

\* the keys bound since the cache was last empty are KeyOf(1) .. KeyOf(Len(useOrder))
NextFresh == Len(useOrder) + 1

\* distinct other keys bound since the latest bind of k
Gap(k) == Len(useOrder) - IndexOf(useOrder, k)

\* what a call of bind_class with key k that returned r leaves in the history
Bound(k, r, backend) ==
    /\ cache' = r.cache
    /\ classes' = r.classes
    /\ ret' = [key |-> k, impl |-> r.impl, backend |-> backend, raised |-> ""]
    /\ firstRet' = IF k \in DOMAIN firstRet THEN firstRet ELSE firstRet @@ (k :> r.impl)
    /\ lastRet' = (k :> r.impl) @@ lastRet
    /\ gapped' = IF k \in SeqToSet(useOrder) /\ Gap(k) >= MaxSize THEN gapped \cup {k}
                 ELSE gapped
    /\ useOrder' = Append(Remove(useOrder, k), k)

\* bind(interface, to_backend) for the interface and the binder of the n-th key
BindSeq(n, to_backend) ==
    LET k == KeyOf(n)
        r == bind(cache, classes, k[1], to_backend, marks)
    IN /\ n <= NumKeys
       /\ KeyOf(n) \in HotKeys \/ n = NextFresh
       /\ binder(to_backend) = k[2]
       /\ k[3] = "positional"
       /\ Len(r.classes) <= MaxClasses
       /\ Bound(k, [cache |-> r.cache, classes |-> r.classes, impl |-> r.service.impl],
                r.service.backend)
       /\ UNCHANGED <<held, log, marks, threads, callVars>>

\* bind_class called with the arguments of the n-th key, passed in one of the ways
\* that use keywords
BindClassSeq(n) ==
    LET k == KeyOf(n)
        r == bind_class(cache, classes, k[1], k[2], k[3], marks)
    IN /\ n <= NumKeys
       /\ KeyOf(n) \in HotKeys \/ n = NextFresh
       /\ k[3] # "positional"
       /\ Len(r.classes) <= MaxClasses
       /\ Bound(k, r, "none")
       /\ UNCHANGED <<held, log, marks, threads, callVars>>

\* bind(PlainClass, to_backend): the call ends in an AttributeError
BindPlain(to_backend) ==
    LET r == bind(cache, classes, PlainClass, to_backend, marks)
    IN /\ Len(classes) <= ClearWithin
       /\ cache' = r.cache
       /\ classes' = r.classes
       /\ ret' = [key |-> make_key(PlainClass, binder(to_backend), "positional"),
                  impl |-> r.service.impl, backend |-> r.service.backend,
                  raised |-> r.raised]
       /\ UNCHANGED <<held, log, marks, firstRet, lastRet, useOrder, gapped, threads,
                      callVars>>

\* bind_class.cache_clear(): every key bound so far may be generated anew from now on
CacheClear ==
    /\ Len(classes) <= ClearWithin
    /\ cache # <<>>
    /\ cache' = cache_clear(cache)
    /\ useOrder' = <<>>
    /\ gapped' = gapped \cup DOMAIN firstRet
    /\ ret' = [key |-> NoKey, impl |-> 0, backend |-> "none", raised |-> ""]
    /\ UNCHANGED <<held, log, marks, classes, firstRet, lastRet, threads, callVars>>

NextBind ==
    \/ \E n \in 1..NumKeys, b \in Backends : BindSeq(n, b)
    \/ \E n \in 1..NumKeys : BindClassSeq(n)
    \/ \E b \in Backends : BindPlain(b)
    \/ CacheClear

SpecBind == InitBind /\ [][NextBind]_vars

----------------------------------------------------------------------------
(* Concurrent binding: threads call bind_class at the same time.  lru_cache   *)
(* looks the key up, runs the function without holding its lock, and stores   *)
(* the result afterwards.                                                     *)

Threads == 1..NumThreads

\* the threads call bind_class as bind does, with both arguments passed by position
RaceKeys == {make_key(1, "httpx", "positional"), make_key(1, "zeep", "positional")}

IdleThread == [pc |-> "idle", key |-> NoKey, impl |-> 0, todo |-> <<>>, got |-> <<>>]

InitRace ==
    /\ marks = DefaultMarks
    /\ cache = <<>>
    /\ classes = <<>>
    /\ ret = [key |-> NoKey, impl |-> 0, backend |-> "none", raised |-> ""]
    /\ firstRet = <<>>
    /\ lastRet = <<>>
    /\ useOrder = <<>>
    /\ gapped = {}
    /\ threads = [t \in Threads |-> IdleThread]
    /\ services = <<>>
    /\ calls = <<>>
    /\ lists = <<>>
    /\ ctx = [b \in Backends |-> 0]
    /\ log = <<>>
    /\ held = NoRequest

\* the cache lookup of a bind_class call: a hit returns the cached class, a miss
\* enters the function and creates the class, with nothing attached
RaceLookup(t, k) ==
    LET hit == LruLookup(cache, k)
        th == threads[t]
    IN /\ th.pc = "idle"
       /\ Len(th.got) < BindsPerThread
       /\ IF hit # 0
          THEN /\ cache' = LruHit(cache, k)
               /\ classes' = classes
               /\ threads' = [threads EXCEPT ![t] =
                    [th EXCEPT !.key = k, !.got = Append(@, [key |-> k, impl |-> hit])]]
          ELSE /\ cache' = cache
               /\ classes' = Append(classes, NewClass(k))
               /\ threads' = [threads EXCEPT ![t] =
                    [th EXCEPT !.pc = "build", !.key = k, !.impl = Len(classes) + 1,
                               !.todo = _enumerate_methods(Members(k[1]))]]
       /\ UNCHANGED <<held, log, marks, ret, firstRet, lastRet, useOrder, gapped, callVars>>

\* one turn of the loop of bind_class: the next method is attached to the class
RaceAttach(t) ==
    LET th == threads[t]
    IN /\ th.pc = "build"
       /\ th.todo # <<>>
       /\ classes' = [classes EXCEPT ![th.impl] = AttachMethod(@, Head(th.todo), marks)]
       /\ threads' = [threads EXCEPT ![t] = [th EXCEPT !.todo = Tail(@)]]
       /\ UNCHANGED <<held, log, marks, cache, ret, firstRet, lastRet, useOrder, gapped, callVars>>

\* bind_class returns: lru_cache stores the class and hands it to the caller
RaceReturn(t) ==
    LET th == threads[t]
    IN /\ th.pc = "build"
       /\ th.todo = <<>>
       /\ cache' = LruInsert(cache, th.key, th.impl)
       /\ threads' = [threads EXCEPT ![t] =
            [th EXCEPT !.pc = "idle", !.impl = 0,
                       !.got = Append(@, [key |-> th.key, impl |-> th.impl])]]
       /\ UNCHANGED <<held, log, marks, classes, ret, firstRet, lastRet, useOrder, gapped, callVars>>

NextRace ==
    \/ \E t \in Threads, k \in RaceKeys : RaceLookup(t, k)
    \/ \E t \in Threads : RaceAttach(t)
    \/ \E t \in Threads : RaceReturn(t)

SpecRace == InitRace /\ [][NextRace]_vars

\* what the callers of bind_class were handed: [key, impl]
Handed == UNION {SeqToSet(threads[t].got) : t \in DOMAIN threads}

----------------------------------------------------------------------------
(* Requests and the markers' prepare_request *)

\* runtime values of call arguments; BadValue does not conform to a declared type
Values == {"1", "2"}

BadValue == "x"

\* an optional field: None, or the value it was set to
None == <<>>

Some(v) == <<v>>

\* field(default_factory=dict): a dictionary without keys
EmptyDict == <<>>

\* field(default_factory=list): every instance gets a list of its own
DefaultFactoryList(heap) == [ref |-> Len(heap) + 1, lists |-> Append(heap, <<>>)]

\* one list object shared by every instance
SharedDefaultList(heap) == [ref |-> 1, lists |-> IF heap = <<>> THEN <<<<>>>> ELSE heap]

NewList(heap) == DefaultFactoryList(heap)

\* Request(): the empty request of the backend family, with the heap of lists after it
NewRequest(request_type, heap) ==
    IF request_type = "rest"
    THEN LET l == NewList(heap)
         IN [request |-> [method |-> None, path |-> None, query_params |-> l.ref,
                          form_data |-> EmptyDict],
             lists |-> l.lists]
    ELSE [request |-> [operation_name |-> None, body |-> None], lists |-> heap]

\* the parameter a placeholder of a path template names
Placeholder == ("{a}" :> "a") @@ ("{b}" :> "b") @@ ("{c}" :> "c")

\* str.format(**arguments) on a template: every placeholder gives way to the argument
\* of its name
format(tpl, arguments) ==
    [i \in 1..Len(tpl) |->
        IF tpl[i] \in DOMAIN Placeholder THEN arguments[Placeholder[tpl[i]]] ELSE tpl[i]]

\* PathMark.prepare_request: request.path = self._factory(**arguments)
PathMarkAssign(mark, st, arguments) ==
    [st EXCEPT !.request.path = Some(format(mark.tpl, arguments))]

\* a path marker that leaves a path already set alone
PathMarkKeepFirst(mark, st, arguments) ==
    IF st.request.path = None
    THEN [st EXCEPT !.request.path = Some(format(mark.tpl, arguments))]
    ELSE st

PathMark_prepare_request(mark, st, arguments) == PathMarkAssign(mark, st, arguments)

\* RestMethodMark.prepare_request: request.method = self.method
RestMethodMark_prepare_request(mark, st, arguments) ==
    [st EXCEPT !.request.method = Some(mark.verb)]

\* OperationNameMethodMark.prepare_request: request.operation_name = self.name
OperationName_prepare_request(mark, st, arguments) ==
    [st EXCEPT !.request.operation_name = Some(mark.name)]

\* QueryParameterMark.prepare_request: request.query_params.append((self.name, value))
QueryAppend(mark, st, value) ==
    [st EXCEPT !.lists[st.request.query_params] = Append(@, <<mark.name, value>>)]

\* a query marker that replaces the list's content
QueryReplace(mark, st, value) ==
    [st EXCEPT !.lists[st.request.query_params] = <<<<mark.name, value>>>>]

QueryParameterMark_prepare_request(mark, st, value) == QueryAppend(mark, st, value)

\* a form field that keeps only the value appended last
set_form_field(form_data, name, value) ==
    (name :> <<value>>) @@ form_data

\* SupportsFormData.append_form_field: self.form_data.setdefault(name, []).append(value)
append_form_field(form_data, name, value) ==
    LET setdefault == IF name \in DOMAIN form_data THEN form_data
                      ELSE (name :> <<>>) @@ form_data
    IN [setdefault EXCEPT ![name] = Append(@, value)]

\* the form field marker: request.append_form_field(self.name, value)
FormField_prepare_request(mark, st, value) ==
    [st EXCEPT !.request.form_data = append_form_field(@, mark.name, value)]

\* the body marker: request.body = value
Body_prepare_request(mark, st, value) == [st EXCEPT !.request.body = Some(value)]

\* one method marker applied; MethodMarker.prepare_request itself does nothing
ApplyMethodMarker(mark, st, arguments) ==
    LET done == CASE mark.kind = "path" -> PathMark_prepare_request(mark, st, arguments)
                  [] mark.kind = "method" -> RestMethodMark_prepare_request(mark, st, arguments)
                  [] mark.kind = "operation" -> OperationName_prepare_request(mark, st, arguments)
                  [] OTHER -> st
    IN [done EXCEPT !.applied =
            Append(@, [kind |-> "method", mark |-> mark, param |-> "", value |-> ""])]

\* one parameter's marker applied to the parameter's own value
ApplyParameterMarker(mark, st, param, value) ==
    LET done == CASE mark.kind = "query" -> QueryParameterMark_prepare_request(mark, st, value)
                  [] mark.kind = "body" -> Body_prepare_request(mark, st, value)
                  [] mark.kind = "form" -> FormField_prepare_request(mark, st, value)
                  [] OTHER -> st
    IN [done EXCEPT !.applied =
            Append(@, [kind |-> "param", mark |-> mark, param |-> param, value |-> value])]

RECURSIVE ApplyMethodMarkers(_, _, _)
ApplyMethodMarkers(method_markers, st, arguments) ==
    IF method_markers = <<>> THEN st
    ELSE ApplyMethodMarkers(Tail(method_markers),
                            ApplyMethodMarker(Head(method_markers), st, arguments),
                            arguments)

RECURSIVE ApplyParameterMarkers(_, _, _, _)
ApplyParameterMarkers(params, annotations, st, arguments) ==
    IF params = <<>> THEN st
    ELSE LET p == Head(params)
             next == IF annotations[p].kind = "none" THEN st
                     ELSE ApplyParameterMarker(annotations[p], st, p, arguments[p])
         IN ApplyParameterMarkers(Tail(params), annotations, next, arguments)

\* the declared parameters after the receiver
Declared(member) == Tail(member.params)

\* signature.bind(service, *args, **kwargs): every declared parameter, and no other
Reconciles(member, args) == DOMAIN args = SeqToSet(Declared(member))

RequestType(method_binder) == IF method_binder = "zeep" THEN "soap" ELSE "rest"

\* build_request(Request, signature, service, args, kwargs): the empty request, every
\* method marker in the order of the marker list, then the marker of every marked
\* parameter in the order the parameters are declared
build_request(request_type, member, method_markers, args, heap) ==
    IF ~Reconciles(member, args)
    THEN [ok |-> FALSE, request |-> None, lists |-> heap, applied |-> <<>>]
    ELSE LET new == NewRequest(request_type, heap)
             st0 == [request |-> new.request, lists |-> new.lists, applied |-> <<>>]
             st1 == ApplyMethodMarkers(method_markers, st0, args)
             st2 == ApplyParameterMarkers(Declared(member), member.annotations, st1, args)
         IN [ok |-> TRUE, request |-> st2.request, lists |-> st2.lists,
             applied |-> st2.applied]

\* what the transport is handed: the request with the content of its lists
Snapshot(request, heap) ==
    IF "query_params" \in DOMAIN request
    THEN [method |-> request.method, path |-> request.path,
          params |-> heap[request.query_params]]
    ELSE [operation_name |-> request.operation_name, body |-> request.body]

----------------------------------------------------------------------------
(* Calls on bound methods of the asynchronous backends.  Calling the method    *)
(* runs its synchronous layers and returns a coroutine; the coroutine runs     *)
(* when it is driven, and calls interleave between the call and the first run  *)
(* and at the suspension points: entering the request_with context, the        *)
(* transport, and leaving the context.                                         *)

\* calls one run makes at most
MaxCalls == 2

\* method markers one method carries at most, where the marker lists are drawn
MaxMarks == 2

Return(v) == [kind |-> "return", value |-> v]

Raise(e) == [kind |-> "raise", value |-> e]

\* `not value` of an optional string: it is None or the empty string.  A path is a
\* sequence of characters, a method a string.
FalsyPath(field) == field = None \/ field[1] = <<>>

FalsyMethod(field) == field = None \/ field[1] = ""

\* a getter that rejects only a missing value
get_url_path_unless_none(request) ==
    [request |-> request,
     result |-> IF request.url_path = None THEN Raise("ValueError")
                ELSE Return(request.url_path[1])]

\* SupportsUrlPath.get_url_path: the stored url_path, a ValueError when it is None or
\* empty; the request after the call and the result.  It reads the attribute url_path,
\* which is not the attribute path that PathMark assigns.
get_url_path(request) ==
    [request |-> request,
     result |-> IF FalsyPath(request.url_path) THEN Raise("ValueError")
                ELSE Return(request.url_path[1])]

\* SupportsMethod.get_method: the stored method, a ValueError when it is None or empty
get_method(request) ==
    [request |-> request,
     result |-> IF FalsyMethod(request.method) THEN Raise("ValueError")
                ELSE Return(request.method[1])]

\* validate_arguments: every declared parameter is given, no other is, and every
\* value conforms to the declared type
Validates(member, args) ==
    /\ DOMAIN args = SeqToSet(Declared(member))
    /\ \A p \in DOMAIN args : args[p] \in Values

\* A call enters the layers of the bound method from the outermost one inwards:
\* validate_arguments raises on arguments that do not validate and calls the layer
\* below otherwise, with every argument passed by keyword under the name the protocol
\* method gives it, the instance as `self`; a marker's wrapper calls the layer below
\* with what it was given; the innermost layer is the binder's bound_method, which is
\* entered when its first parameter is named `self` and ends the call in a TypeError
\* (its first parameter is missing) otherwise.  The layers entered, and how the
\* descent ended.
RECURSIVE EnterLayers(_, _, _, _, _, _)
EnterLayers(layers, i, receiver, member, args, entered) ==
    IF i = 0 THEN [entered |-> entered, status |-> "none"]
    ELSE LET now == Append(entered, layers[i])
         IN IF layers[i] = "validate"
            THEN IF Validates(member, args)
                 THEN EnterLayers(layers, i - 1, receiver, member, args, now)
                 ELSE [entered |-> now, status |-> "argerror"]
            ELSE IF layers[i] = "dispatch"
            THEN IF receiver = "self"
                 THEN [entered |-> now, status |-> "dispatch"]
                 ELSE [entered |-> entered, status |-> "typeerror"]
            ELSE EnterLayers(layers, i - 1, receiver, member, args, now)

\* service.backend, read off the instance
InstanceBackend(svcs, s) == svcs[s].backend

\* the backend of the newest instance of the service's class
ClassBackend(svcs, s) ==
    svcs[CHOOSE i \in 1..Len(svcs) :
            /\ svcs[i].impl = svcs[s].impl
            /\ \A j \in 1..Len(svcs) : svcs[j].impl = svcs[s].impl => j <= i].backend

BackendOfService(svcs, s) == InstanceBackend(svcs, s)

\* parse the payload as the type: the typed value, or a validation error when the
\* payload does not conform
Parse(type, conforms) ==
    IF conforms THEN Return(type) ELSE Raise("ResponseValidationError")

_parse_response(type, conforms) == Parse(type, conforms)

_parse_soap_fault(fault_type, conforms) == Parse(fault_type, conforms)

\* what the transport did: it answered, it answered with a non-success status (HTTP)
\* or a SOAP fault (Zeep), or it raised another exception
Outcomes(method_binder) ==
    IF method_binder = "zeep" THEN {"ok", "fault", "error"} ELSE {"ok", "status", "error"}

\* HttpxBackend.__call__ after the request: raise_for_status, then the response parsed
\* as the whole return annotation (the HTTPX backend does not split it)
HttpxRaiseForStatus(outcome, conforms, callable) ==
    CASE outcome = "error" -> Raise("TransportError")
      [] outcome = "status" -> Raise("HTTPStatusError")
      [] OTHER -> _parse_response(callable.return_type.annotation, conforms)

\* without raise_for_status
HttpxParseAnyStatus(outcome, conforms, callable) ==
    CASE outcome = "error" -> Raise("TransportError")
      [] OTHER -> _parse_response(callable.return_type.annotation, conforms)

HttpxBackend_call(outcome, conforms, callable) ==
    HttpxRaiseForStatus(outcome, conforms, callable)

\* ZeepBackend.__call__ after the operation: a Fault is parsed as the fault type,
\* a response as the response type, any other exception is not caught
ZeepCatchFault(outcome, conforms, callable) ==
    CASE outcome = "error" -> Raise("TransportError")
      [] outcome = "fault" -> _parse_soap_fault(callable.fault_type, conforms)
      [] OTHER -> _parse_response(callable.response_type, conforms)

\* a Fault parsed as the response type
ZeepFaultAsResponse(outcome, conforms, callable) ==
    CASE outcome = "error" -> Raise("TransportError")
      [] OTHER -> _parse_response(callable.response_type, conforms)

ZeepBackend_call(outcome, conforms, callable) == ZeepCatchFault(outcome, conforms, callable)

\* the bound method a call runs
CallableOf(c) == classes[services[c.svc].impl].attrs[c.name]

InterfaceOf(svc) == classes[services[svc].impl].key[1]

\* a call that ended before anything ran
NoCall(svc, name, args, via) ==
    [svc |-> svc, name |-> name, args |-> args, via |-> via, pc |-> "done",
     entered |-> <<>>, builds |-> 0, applied |-> <<>>,
     request |-> None, sent |-> <<>>, backend |-> "none",
     outcome |-> "none", conforms |-> TRUE, result |-> NoResult]

\* A call of the bound method.  The attribute is validate_arguments around the
\* markers' wrappers around the binder's bound_method, an `async def`: the call enters
\* the layers and, when the arguments validate and bound_method takes the instance as
\* `self`, returns the coroutine of bound_method, of which nothing has run yet.
CallStart(svc, name, args) ==
    LET interface == InterfaceOf(svc)
        callable == classes[services[svc].impl].attrs[name]
        member == MemberNamed(interface, name)
        run == EnterLayers(callable.layers, Len(callable.layers), callable.receiver,
                           member, args, <<>>)
        base == [NoCall(svc, name, args, "attribute") EXCEPT !.entered = run.entered]
    IN /\ Len(calls) < MaxCalls
       /\ svc \in 1..Len(services)
       /\ calls' = Append(calls,
             CASE run.status = "dispatch" -> [base EXCEPT !.pc = "called"]
               [] run.status = "typeerror" -> [base EXCEPT !.result = Raise("TypeError")]
               [] OTHER -> [base EXCEPT !.result = Raise("ArgumentError")])
       /\ UNCHANGED <<held, log, marks, cache, classes, ret, firstRet, lastRet, useOrder, gapped,
                      threads, services, lists, ctx>>

\* The callable the binder makes for the method, called on its own with the service
\* as its first positional argument: no validation and no marker's wrapper is around
\* it; the call returns the coroutine of bound_method, of which nothing has run yet.
CallBound(svc, name, args) ==
    /\ Len(calls) < MaxCalls
    /\ svc \in 1..Len(services)
    /\ calls' = Append(calls, [NoCall(svc, name, args, "binder") EXCEPT
                                  !.pc = "called", !.entered = <<"dispatch">>])
    /\ UNCHANGED <<held, log, marks, cache, classes, ret, firstRet, lastRet, useOrder, gapped,
                   threads, services, lists, ctx>>

\* the coroutine is driven for the first time: bound_method builds the request
CallBuild(c) ==
    LET callable == CallableOf(calls[c])
        member == MemberNamed(InterfaceOf(calls[c].svc), calls[c].name)
        b == build_request(RequestType(callable.binder), member, callable.markers,
                           calls[c].args, lists)
    IN /\ calls[c].pc = "called"
       /\ IF ~b.ok
          THEN /\ calls' = [calls EXCEPT ![c].pc = "done", ![c].builds = 1,
                                         ![c].result = Raise("TypeError")]
               /\ lists' = lists
          ELSE /\ calls' = [calls EXCEPT ![c].pc = "built", ![c].builds = 1,
                                         ![c].applied = b.applied,
                                         ![c].request = b.request]
               /\ lists' = b.lists
       /\ UNCHANGED <<held, log, marks, cache, classes, ret, firstRet, lastRet, useOrder, gapped,
                      threads, services, ctx>>

\* async with backend._request_with(): the context is entered
CallCtxEnter(c) ==
    LET backend == BackendOfService(services, calls[c].svc)
    IN /\ calls[c].pc = "built"
       /\ calls' = [calls EXCEPT ![c].pc = "entered", ![c].backend = backend]
       /\ ctx' = [ctx EXCEPT ![backend] = @ + 1]
       /\ UNCHANGED <<held, log, marks, cache, classes, ret, firstRet, lastRet, useOrder, gapped,
                      threads, services, lists>>

\* await client.request(...) / await operation(...): the transport is handed the request
CallTransport(c) ==
    /\ calls[c].pc = "entered"
    /\ calls' = [calls EXCEPT ![c].pc = "transport",
                              ![c].sent = Append(@, Snapshot(calls[c].request, lists))]
    /\ UNCHANGED <<held, log, marks, cache, classes, ret, firstRet, lastRet, useOrder, gapped,
                   threads, services, lists, ctx>>

\* a response handled without waiting for the transport: the outcome is taken and
\* parsed as soon as the context is entered
CallCompleteUnawaited(c, outcome, conforms) ==
    LET callable == CallableOf(calls[c])
    IN /\ calls[c].pc \in {"entered", "transport"}
       /\ outcome \in Outcomes(callable.binder)
       /\ outcome \in {"status", "error"} => conforms
       /\ calls' = [calls EXCEPT ![c].pc = "exiting",
                                 ![c].outcome = outcome,
                                 ![c].conforms = conforms,
                                 ![c].result =
                                    IF callable.binder = "httpx"
                                    THEN HttpxBackend_call(outcome, conforms, callable)
                                    ELSE NoResult]
       /\ UNCHANGED <<held, log, marks, cache, classes, ret, firstRet, lastRet, useOrder, gapped,
                      threads, services, lists, ctx>>

\* the transport completes; the HTTPX backend checks the status and parses the
\* response inside the context
CallComplete(c, outcome, conforms) ==
    LET callable == CallableOf(calls[c])
    IN /\ calls[c].pc = "transport"
       /\ outcome \in Outcomes(callable.binder)
       /\ outcome \in {"status", "error"} => conforms
       /\ calls' = [calls EXCEPT ![c].pc = "exiting",
                                 ![c].outcome = outcome,
                                 ![c].conforms = conforms,
                                 ![c].result =
                                    IF callable.binder = "httpx"
                                    THEN HttpxBackend_call(outcome, conforms, callable)
                                    ELSE NoResult]
       /\ UNCHANGED <<held, log, marks, cache, classes, ret, firstRet, lastRet, useOrder, gapped,
                      threads, services, lists, ctx>>

\* a context left only when the transport succeeded: an exception skips the exit
CallExitOnSuccessOnly(c) ==
    LET callable == CallableOf(calls[c])
    IN /\ calls[c].pc = "exiting"
       /\ ctx' = IF calls[c].outcome = "ok"
                 THEN [ctx EXCEPT ![calls[c].backend] = @ - 1]
                 ELSE ctx
       /\ calls' = [calls EXCEPT ![c].pc = "done",
                                 ![c].result =
                                    IF callable.binder = "zeep"
                                    THEN ZeepBackend_call(calls[c].outcome,
                                                          calls[c].conforms, callable)
                                    ELSE @]
       /\ UNCHANGED <<held, log, marks, cache, classes, ret, firstRet, lastRet, useOrder, gapped,
                      threads, services, lists>>

\* the context is left and the call ends; the Zeep backend catches the Fault and
\* parses outside the context
CallExit(c) ==
    LET callable == CallableOf(calls[c])
    IN /\ calls[c].pc = "exiting"
       /\ ctx' = [ctx EXCEPT ![calls[c].backend] = @ - 1]
       /\ calls' = [calls EXCEPT ![c].pc = "done",
                                 ![c].result =
                                    IF callable.binder = "zeep"
                                    THEN ZeepBackend_call(calls[c].outcome,
                                                          calls[c].conforms, callable)
                                    ELSE @]
       /\ UNCHANGED <<held, log, marks, cache, classes, ret, firstRet, lastRet, useOrder, gapped,
                      threads, services, lists>>

\* the services of the call specifications: two services of one interface bound to two
\* HTTPX backends, one service of the SOAP interface bound to a Zeep backend
ServicesToBind == << <<1, "b1">>, <<1, "b2">>, <<2, "z1">> >>

RECURSIVE BindAll(_, _, _)
BindAll(st, todo, mk) ==
    IF todo = <<>> THEN st
    ELSE LET r == bind(st.cache, st.classes, Head(todo)[1], Head(todo)[2], mk)
         IN BindAll([cache |-> r.cache, classes |-> r.classes,
                     services |-> Append(st.services, r.service)],
                    Tail(todo), mk)

InitServices(mk) ==
    LET st == BindAll([cache |-> <<>>, classes |-> <<>>, services |-> <<>>],
                      ServicesToBind, mk)
    IN /\ marks = mk
       /\ cache = st.cache
       /\ classes = st.classes
       /\ services = st.services
       /\ ret = [key |-> NoKey, impl |-> 0, backend |-> "none", raised |-> ""]
       /\ firstRet = <<>>
       /\ lastRet = <<>>
       /\ useOrder = <<>>
       /\ gapped = {}
       /\ threads = NoThreads
       /\ calls = <<>>
       /\ lists = <<>>
       /\ ctx = [b \in Backends |-> 0]
       /\ log = <<>>

InitWith(mk) == InitServices(mk) /\ held = NoRequest

\* the arguments the calls of the concurrent specification are made with
CallArgs(interface, name) ==
    IF interface = 2
    THEN IF name = <<"f">> THEN {[a |-> "1"], <<>>} ELSE {[a |-> "2"]}
    ELSE IF name = <<"f">>
         THEN {[a |-> "1", b |-> "2", c |-> "2"], [b |-> "2", c |-> "2"],
               [a |-> BadValue, b |-> "2", c |-> "2"]}
         ELSE {[a |-> "2"]}

\* the arguments the binders' callables are called with: arguments that validate on the
\* REST interface, where no call of the attribute reaches the binder's callable, and
\* none at all for f of the SOAP interface, which validation would have refused
BoundArgs(interface, name) ==
    IF interface = 2
    THEN IF name = <<"f">> THEN {<<>>} ELSE {}
    ELSE IF name = <<"f">> THEN {[a |-> "1", b |-> "2", c |-> "2"]} ELSE {[a |-> "2"]}

InitCall == InitWith(DefaultMarks)

NextCall ==
    \/ \E svc \in 1..Len(services), name \in {<<"f">>, <<"g">>} :
          \E args \in CallArgs(InterfaceOf(svc), name) : CallStart(svc, name, args)
    \/ \E svc \in 1..Len(services), name \in {<<"f">>, <<"g">>} :
          \E args \in BoundArgs(InterfaceOf(svc), name) : CallBound(svc, name, args)
    \/ \E c \in 1..Len(calls) : CallBuild(c)
    \/ \E c \in 1..Len(calls) : CallCtxEnter(c)
    \/ \E c \in 1..Len(calls) : CallTransport(c)
    \/ \E c \in 1..Len(calls), outcome \in {"ok", "status", "fault", "error"},
          conforms \in BOOLEAN : CallComplete(c, outcome, conforms)
    \/ \E c \in 1..Len(calls) : CallExit(c)

SpecCall == InitCall /\ [][NextCall]_vars

----------------------------------------------------------------------------
(* Request building on its own: the marker list of method f of the REST        *)
(* interface is drawn from the marker lists up to MaxMarks, the arguments from *)
(* all values, and the HTTPX binder's callable for f or for h is called once    *)
(* and builds its request.                                                     *)

MarkerAlphabet ==
    { PathMark(<<"/", "p">>), PathMark(<<"/", "{b}">>), PathMark(<<>>),
      RestMethodMark("GET"), RestMethodMark("POST"), RestMethodMark(""),
      WrapWith("d1") }

MarkSeqs == UNION {[1..n -> MarkerAlphabet] : n \in 0..MaxMarks}

InitBuild ==
    \E ms \in MarkSeqs : InitWith((<<1, <<"f">>>> :> ms) @@ DefaultMarks)

NextBuild ==
    \/ \E args \in [{"a", "b", "c"} -> Values] :
          /\ calls = <<>>
          /\ CallBound(1, <<"f">>, args)
    \/ \E args \in [{"x", "y", "z", "q"} -> Values] :
          /\ calls = <<>>
          /\ CallBound(1, <<"h">>, args)
    \/ \E c \in 1..Len(calls) : CallBuild(c)

SpecBuild == InitBuild /\ [][NextBuild]_vars

----------------------------------------------------------------------------
(* The validating getters on their own: a request with the attributes url_path *)
(* and method of the mixins and the attribute path that PathMark assigns, made *)
(* with any of a few values of url_path and method; markers and getters are    *)
(* applied to it in any order.                                                 *)

UrlPathValues == {None, Some(<<>>), Some(<<"/", "p">>)}

MethodValues == {None, Some(""), Some("GET")}

\* the markers applied to the held request
GetterMarks ==
    {PathMark(<<"/", "p">>), PathMark(<<>>), RestMethodMark("GET"), RestMethodMark("")}

InitGetters ==
    /\ InitServices(DefaultMarks)
    /\ \E u \in UrlPathValues, m \in MethodValues :
          held = [NoRequest EXCEPT !.request = [url_path |-> u, method |-> m, path |-> None]]

\* marker.prepare_request(request, {}) on the held request
Prepare(mark) ==
    LET st == [request |-> held.request]
        done == IF mark.kind = "path" THEN PathMark_prepare_request(mark, st, <<>>)
                ELSE RestMethodMark_prepare_request(mark, st, <<>>)
    IN /\ held' = [held EXCEPT !.request = done.request]
       /\ UNCHANGED <<log, marks, cache, classes, ret, firstRet, lastRet, useOrder, gapped,
                      threads, services, calls, lists, ctx>>

\* request.get_url_path() on the held request
GetUrlPath ==
    LET p == get_url_path(held.request)
    IN /\ ~held.got_url_path.asked
       /\ held' = [held EXCEPT !.request = p.request,
                               !.got_url_path = [asked |-> TRUE, before |-> held.request,
                                                 after |-> p.request, result |-> p.result]]
       /\ UNCHANGED <<log, marks, cache, classes, ret, firstRet, lastRet, useOrder, gapped,
                      threads, services, calls, lists, ctx>>

\* request.get_method() on the held request
GetMethod ==
    LET m == get_method(held.request)
    IN /\ ~held.got_method.asked
       /\ held' = [held EXCEPT !.request = m.request,
                               !.got_method = [asked |-> TRUE, before |-> held.request,
                                               after |-> m.request, result |-> m.result]]
       /\ UNCHANGED <<log, marks, cache, classes, ret, firstRet, lastRet, useOrder, gapped,
                      threads, services, calls, lists, ctx>>

NextGetters ==
    \/ \E mark \in GetterMarks : Prepare(mark)
    \/ GetUrlPath
    \/ GetMethod

SpecGetters == InitGetters /\ [][NextGetters]_vars

----------------------------------------------------------------------------
(* Wrapping on its own: the marker lists of method f of the REST interface and *)
(* of method f of the SOAP interface are drawn from lists of wrap_with markers *)
(* and a marker without a wrapper, the services are bound, and the methods are *)
(* called again and again.                                                     *)

WrapAlphabet == {WrapWith("d1"), WrapWith("d2"), RestMethodMark("GET")}

WrapSeqs == UNION {[1..n -> WrapAlphabet] : n \in 0..MaxMarks}

\* the arguments of the calls of the REST method: two that validate, one that does not
WrapArgs ==
    { [a |-> "1", b |-> "1", c |-> "1"], [a |-> "2", b |-> "2", c |-> "2"],
      [a |-> BadValue, b |-> "1", c |-> "1"] }

\* the arguments of the calls of the SOAP method: one that validates, one that does not
SoapWrapArgs == {[a |-> "1"], [a |-> BadValue]}

\* the service bound to the Zeep backend
ZeepService == 3

InitWrap ==
    \E ms \in WrapSeqs :
        InitWith((<<1, <<"f">>>> :> ms) @@ (<<2, <<"f">>>> :> ms) @@ DefaultMarks)

NextWrap ==
    \/ \E args \in WrapArgs : CallStart(1, <<"f">>, args)
    \/ \E args \in SoapWrapArgs : CallStart(ZeepService, <<"f">>, args)

SpecWrap == InitWrap /\ [][NextWrap]_vars

----------------------------------------------------------------------------
(* Marker registration and extraction on their own: methods that carry no marker  *)
(* list yet are marked and have their markers extracted, in any order.            *)

\* extractions and registrations one run makes at most
MaxEvents == 3

\* the methods marked and extracted from
MarkMethods == {<<1, <<"f">>>>, <<1, <<"g">>>>}

\* the markers registered
MarkersToRegister == {OperationNameMethodMark("test"), WrapWith("d1")}

InitMark ==
    /\ marks = <<>>
    /\ cache = <<>>
    /\ classes = <<>>
    /\ ret = [key |-> NoKey, impl |-> 0, backend |-> "none", raised |-> ""]
    /\ firstRet = <<>>
    /\ lastRet = <<>>
    /\ useOrder = <<>>
    /\ gapped = {}
    /\ threads = NoThreads
    /\ services = <<>>
    /\ calls = <<>>
    /\ lists = <<>>
    /\ ctx = [b \in Backends |-> 0]
    /\ log = <<>>
    /\ held = NoRequest

\* marks = MethodMarker.ensure_markers(method)
Extract(method) ==
    LET e == ensure_markers(marks, method)
    IN /\ Len(log) < MaxEvents
       /\ marks' = e.marks
       /\ log' = Append(log, [op |-> "extract", method |-> method, marker |-> NoMark,
                              before |-> marks, after |-> e.marks, result |-> e.result])
       /\ UNCHANGED <<held, cache, classes, ret, firstRet, lastRet, useOrder, gapped, threads,
                      callVars>>

\* marker.mark(method): what a marking decorator does
Mark(method, marker) ==
    LET after == MethodMarker_mark(marks, method, marker)
    IN /\ Len(log) < MaxEvents
       /\ marks' = after
       /\ log' = Append(log, [op |-> "mark", method |-> method, marker |-> marker,
                              before |-> marks, after |-> after, result |-> <<>>])
       /\ UNCHANGED <<held, cache, classes, ret, firstRet, lastRet, useOrder, gapped, threads,
                      callVars>>

NextMark ==
    \/ \E method \in MarkMethods : Extract(method)
    \/ \E method \in MarkMethods, marker \in MarkersToRegister : Mark(method, marker)

SpecMark == InitMark /\ [][NextMark]_vars

----------------------------------------------------------------------------
(* Claims about binding *)

\* the keys bind() makes: both arguments of bind_class passed by position
BindKeys == {k \in DOMAIN firstRet : k[3] = "positional"}

\* C1 as stated: every bind of an interface to a binder returns the class the first
\* bind of the pair returned, whatever happened in between.
C1_SameAsFirstBind ==
    \A k \in BindKeys : lastRet[k] = firstRet[k]

\* C1, amended: as long as the cache was not cleared and fewer than MaxSize distinct
\* other keys were bound between any two consecutive binds of an interface to a
\* binder, every bind of the pair returns the class its first bind generated and stored
\* (and with it the same callables, which belong to the class), complete and generated
\* for that pair.
C1_SameUnlessEvicted ==
    \A k \in BindKeys \ gapped :
        /\ lastRet[k] = firstRet[k]
        /\ classes[firstRet[k]].key = k
        /\ Complete(classes[firstRet[k]])

\* the first pair was bound, other keys were bound, one of them by a call of bind_class
\* with keyword arguments, and the first pair was bound again
C1_Witness ==
    /\ Len(useOrder) >= 3
    /\ KeyOf(2) \in SeqToSet(useOrder)
    /\ useOrder[Len(useOrder)] = KeyOf(1)
    /\ ret.key = KeyOf(1)
    /\ KeyOf(1) \notin gapped
    /\ lastRet[KeyOf(1)] = 1

\* C2: concurrent first-time binds of a key hand every caller one and the same class,
\* and a class a caller or the cache holds has every method attached.
C2_OneImplementation ==
    /\ \A x \in Handed, y \in Handed : x.key = y.key => x.impl = y.impl
    /\ \A x \in Handed : Complete(classes[x.impl])
    /\ \A i \in 1..Len(cache) : Complete(classes[cache[i].impl])

Min(a, b) == IF a < b THEN a ELSE b

\* C8: the cache never holds more than MaxSize entries, holds one entry for an
\* (interface, binder) pair at most, and holds exactly the most recently bound keys in
\* the order of their latest bind: the entry an insertion into a full cache evicts is
\* the least recently bound one.
C8_LruBounded ==
    /\ Len(cache) <= MaxSize
    /\ \A i \in 1..Len(cache), j \in 1..Len(cache) :
          (cache[i].key[1] = cache[j].key[1] /\ cache[i].key[2] = cache[j].key[2]) => i = j
    /\ Len(cache) = Min(MaxSize, Len(useOrder))
    /\ [i \in 1..Len(cache) |-> cache[i].key]
         = SubSeq(useOrder, Len(useOrder) - Len(cache) + 1, Len(useOrder))

----------------------------------------------------------------------------
(* Claims about request building *)

MemberOfCall(c) == MemberNamed(InterfaceOf(c.svc), c.name)

\* the calls whose request was built
Built == {i \in 1..Len(calls) : calls[i].builds = 1 /\ calls[i].request # None}

\* the value a marker sets its field to
FieldValue(mark, args) ==
    IF mark.kind = "path" THEN Some(format(mark.tpl, args)) ELSE Some(mark.verb)

FieldOf(request, kind) == IF kind = "path" THEN request.path ELSE request.method

\* C3: when two markers of a method set the same request field (two path markers, two
\* HTTP-method markers), the built request holds in that field the value of the one
\* declared last.
C3_LastDeclaredWins ==
    \A c \in Built :
        LET ms == CallableOf(calls[c]).markers
        IN \A i \in 1..Len(ms), j \in 1..Len(ms) :
              ( /\ i < j
                /\ ms[i].kind = ms[j].kind
                /\ ms[j].kind \in {"path", "method"}
                /\ \A k \in (j + 1)..Len(ms) : ms[k].kind # ms[j].kind )
              => FieldOf(calls[c].request, ms[j].kind) = FieldValue(ms[j], calls[c].args)

\* a request was built under two path markers of different values, and holds the second
C3_Witness ==
    \E c \in Built :
        LET ms == CallableOf(calls[c]).markers
        IN /\ Len(ms) = 2
           /\ ms[1].kind = "path" /\ ms[2].kind = "path"
           /\ FieldValue(ms[1], calls[c].args) # FieldValue(ms[2], calls[c].args)
           /\ calls[c].request.path = FieldValue(ms[2], calls[c].args)

\* the marked parameters of a member, in declared order
MarkedParams(member) ==
    SelectSeq(Declared(member), LAMBDA p : member.annotations[p].kind # "none")

\* the marker applications of one build: the method markers in the order of the marker
\* list, then the marked parameters in declared order, each with its own value
ExpectedApplied(ms, member, args) ==
    [i \in 1..Len(ms) |-> [kind |-> "method", mark |-> ms[i], param |-> "", value |-> ""]]
    \o [i \in 1..Len(MarkedParams(member)) |->
          LET p == MarkedParams(member)[i]
          IN [kind |-> "param", mark |-> member.annotations[p], param |-> p,
              value |-> args[p]]]

\* the query parameters a REST call's arguments give
ExpectedParams(member, args) ==
    LET qs == SelectSeq(Declared(member), LAMBDA p : member.annotations[p].kind = "query")
    IN [i \in 1..Len(qs) |-> <<member.annotations[qs[i]].name, args[qs[i]]>>]

\* the request the same call would have built with another value of parameter p
Rebuilt(c, p, v) ==
    LET callable == CallableOf(c)
        b == build_request(RequestType(callable.binder), MemberOfCall(c),
                           callable.markers, [c.args EXCEPT ![p] = v], <<>>)
    IN Snapshot(b.request, b.lists)

Unmarked(member) ==
    {p \in SeqToSet(Declared(member)) : member.annotations[p].kind = "none"}

\* a method marker that reads parameter p off the bound arguments
Reads(mark, p) ==
    /\ mark.kind = "path"
    /\ \E i \in 1..Len(mark.tpl) :
          mark.tpl[i] \in DOMAIN Placeholder /\ Placeholder[mark.tpl[i]] = p

AppliedInOrder(c) ==
    calls[c].applied =
        ExpectedApplied(CallableOf(calls[c]).markers, MemberOfCall(calls[c]), calls[c].args)

\* C4 as stated: the applications of a build are the method markers in declaration
\* order, then the marked parameters in declared order with their own values, and the
\* built request does not depend on the value of a parameter without a marker.
C4_UnmarkedNeverMatters ==
    \A c \in Built :
        /\ AppliedInOrder(c)
        /\ \A p \in Unmarked(MemberOfCall(calls[c])), v \in Values :
              Rebuilt(calls[c], p, v) = Snapshot(calls[c].request, lists)

\* C4, amended: the same order of applications; a parameter without a marker causes no
\* application, and the built request does not depend on its value unless a method
\* marker reads it off the bound arguments (a path template that names it).
C4_OrderAndUnmarked ==
    \A c \in Built :
        /\ AppliedInOrder(c)
        /\ "query_params" \in DOMAIN calls[c].request =>
              lists[calls[c].request.query_params]
                 = ExpectedParams(MemberOfCall(calls[c]), calls[c].args)
        /\ \A p \in Unmarked(MemberOfCall(calls[c])), v \in Values :
              (\A i \in 1..Len(CallableOf(calls[c]).markers) :
                    ~Reads(CallableOf(calls[c]).markers[i], p))
              => Rebuilt(calls[c], p, v) = Snapshot(calls[c].request, lists)

\* a request was built for (a, b, c) = ("1", "2", "2") under two method markers none of
\* which reads b: two method applications, then a's and c's markers
C4_Witness ==
    \E c \in Built :
        /\ calls[c].args = [a |-> "1", b |-> "2", c |-> "2"]
        /\ Len(CallableOf(calls[c]).markers) = 2
        /\ \A i \in 1..2 : ~Reads(CallableOf(calls[c]).markers[i], "b")
        /\ Len(calls[c].applied) = 4
        /\ lists[calls[c].request.query_params] = << <<"qa", "1">>, <<"qc", "2">> >>

----------------------------------------------------------------------------
(* Claims about calls *)

\* C5: a call of a bound method whose arguments do not validate (a required one is
\* missing, or a value does not conform) ends in the argument error of
\* validate_arguments; no marker's wrapper and no dispatch is entered, no request is
\* built, no transport is invoked.
C5_ArgumentErrorFirst ==
    \A c \in 1..Len(calls) :
        (calls[c].via = "attribute" /\ ~Validates(MemberOfCall(calls[c]), calls[c].args)) =>
            /\ calls[c].pc = "done"
            /\ calls[c].result = Raise("ArgumentError")
            /\ calls[c].entered = <<"validate">>
            /\ calls[c].builds = 0
            /\ calls[c].sent = <<>>
            /\ calls[c].backend = "none"

\* a call of a method with a wrapper was made without the required argument a, and
\* another one with a value that does not conform
C5_Witness ==
    /\ \E c \in 1..Len(calls) :
          /\ "a" \notin DOMAIN calls[c].args
          /\ "d1" \in SeqToSet(CallableOf(calls[c]).layers)
          /\ calls[c].result = Raise("ArgumentError")
    /\ \E c \in 1..Len(calls) :
          /\ "a" \in DOMAIN calls[c].args
          /\ calls[c].args["a"] = BadValue
          /\ calls[c].result = Raise("ArgumentError")

ZeepCalls == {c \in 1..Len(calls) : CallableOf(calls[c]).binder = "zeep"}

HttpxCalls == {c \in 1..Len(calls) : CallableOf(calls[c]).binder = "httpx"}

\* C6: a finished Zeep call whose transport reported a fault returns the payload parsed
\* as the fault shape, one whose transport succeeded returns it parsed as the success
\* shape (a payload that does not conform is a validation error in both cases); the
\* two shapes differ, and neither is ever returned for the other outcome.
C6_FaultOrSuccessShape ==
    \A c \in ZeepCalls :
        LET callable == CallableOf(calls[c])
        IN /\ callable.response_type = ReturnType.success
           /\ callable.fault_type = ReturnType.fault
           /\ callable.response_type # callable.fault_type
           /\ (calls[c].pc = "done" /\ calls[c].outcome = "fault") =>
                 calls[c].result = IF calls[c].conforms THEN Return(ReturnType.fault)
                                   ELSE Raise("ResponseValidationError")
           /\ (calls[c].pc = "done" /\ calls[c].outcome = "ok") =>
                 calls[c].result = IF calls[c].conforms THEN Return(ReturnType.success)
                                   ELSE Raise("ResponseValidationError")

\* one Zeep call returned a parsed fault and another one a parsed success
C6_Witness ==
    /\ \E c \in ZeepCalls :
          calls[c].outcome = "fault" /\ calls[c].result = Return(ReturnType.fault)
    /\ \E c \in ZeepCalls :
          calls[c].outcome = "ok" /\ calls[c].result = Return(ReturnType.success)

\* C7: a transport failure the return type does not declare (an exception other than
\* a Fault from the SOAP operation or from the HTTP client, a non-success HTTP status)
\* ends the call in that error: nothing is returned for it.  No call invokes the
\* transport more than once.
C7_FailurePropagates ==
    \A c \in 1..Len(calls) :
        /\ Len(calls[c].sent) <= 1
        /\ calls[c].outcome # "none" => Len(calls[c].sent) = 1
        /\ (calls[c].pc = "done" /\ calls[c].outcome = "error") =>
              calls[c].result = Raise("TransportError")
        /\ (calls[c].pc = "done" /\ calls[c].outcome = "status") =>
              calls[c].result = Raise("HTTPStatusError")
        /\ calls[c].outcome \in {"error", "status"} => calls[c].result.kind # "return"

\* an HTTPX call ended in the status error and a Zeep call in the transport's exception
C7_Witness ==
    /\ \E c \in HttpxCalls :
          /\ calls[c].pc = "done"
          /\ calls[c].outcome = "status"
          /\ calls[c].result = Raise("HTTPStatusError")
    /\ \E c \in ZeepCalls :
          /\ calls[c].pc = "done"
          /\ calls[c].outcome = "error"
          /\ calls[c].result = Raise("TransportError")

\* the calls whose request is built and not yet done with
InFlight == {c \in 1..Len(calls) : calls[c].pc \in {"built", "entered", "transport"}}

\* C9: every call has a request of its own: the query parameter lists of two calls are
\* different objects, the list of a call in flight holds the parameters of that call's
\* arguments and nothing else, and so does the request the transport was handed.
C9_RequestOwnedByCall ==
    /\ \A c \in Built, d \in Built :
          ( /\ c # d
            /\ "query_params" \in DOMAIN calls[c].request
            /\ "query_params" \in DOMAIN calls[d].request )
          => calls[c].request.query_params # calls[d].request.query_params
    /\ \A c \in HttpxCalls \cap InFlight :
          lists[calls[c].request.query_params]
             = ExpectedParams(MemberOfCall(calls[c]), calls[c].args)
    /\ \A c \in HttpxCalls :
          \A i \in 1..Len(calls[c].sent) :
             calls[c].sent[i].params = ExpectedParams(MemberOfCall(calls[c]), calls[c].args)

\* two calls of different methods on the same service are in their transport at the
\* same time, with different query parameters
C9_Witness ==
    /\ Len(calls) = 2
    /\ calls[1].svc = calls[2].svc
    /\ calls[1].name # calls[2].name
    /\ calls[1].pc = "transport" /\ calls[2].pc = "transport"
    /\ CallableOf(calls[1]).binder = "httpx"
    /\ calls[1].sent[1].params # calls[2].sent[1].params

\* C10: a service keeps the backend it was bound with, and every call dispatches to
\* the backend of the service it was made on.
C10_OwnBackend ==
    /\ Len(services) = Len(ServicesToBind)
    /\ \A s \in 1..Len(services) : services[s].backend = ServicesToBind[s][2]
    /\ \A c \in 1..Len(calls) :
          /\ calls[c].backend \in {"none", ServicesToBind[calls[c].svc][2]}
          /\ calls[c].pc \in {"entered", "transport", "exiting"} =>
                calls[c].backend = ServicesToBind[calls[c].svc][2]

\* two services of the same cached class, bound to different backends, each have a
\* call in its transport
C10_Witness ==
    /\ Len(calls) = 2
    /\ services[calls[1].svc].impl = services[calls[2].svc].impl
    /\ services[calls[1].svc].backend # services[calls[2].svc].backend
    /\ calls[1].pc = "transport" /\ calls[2].pc = "transport"
    /\ calls[1].backend = "b1" /\ calls[2].backend = "b2"

\* the results that come out of response parsing
Parsed(result) ==
    result.kind = "return" \/ result = Raise("ResponseValidationError")

\* C11: the steps of a call of an asynchronous backend occur in a fixed order.  A call
\* whose coroutine has not run yet has built and sent nothing; a call that reached
\* its first suspension point has its request completely built (every marker applied),
\* in the one step that started the coroutine; the transport is handed a request only after the build and inside
\* the call's context; an outcome is taken, and a response parsed, only after the
\* transport was handed the request; and the request the call holds is still the one
\* the transport was handed.
C11_StepOrder ==
    \A c \in 1..Len(calls) :
        /\ calls[c].pc = "called" =>
              /\ calls[c].builds = 0
              /\ calls[c].request = None
              /\ calls[c].sent = <<>> /\ calls[c].outcome = "none"
        /\ calls[c].pc \in {"built", "entered", "transport", "exiting"} =>
              /\ calls[c].builds = 1
              /\ calls[c].request # None
              /\ AppliedInOrder(c)
        /\ calls[c].pc \in {"built", "entered"} =>
              calls[c].sent = <<>> /\ calls[c].outcome = "none"
        /\ calls[c].pc = "transport" =>
              Len(calls[c].sent) = 1 /\ calls[c].outcome = "none"
        /\ calls[c].sent # <<>> =>
              /\ calls[c].builds = 1
              /\ calls[c].backend # "none"
              /\ Snapshot(calls[c].request, lists) = calls[c].sent[1]
        /\ calls[c].outcome # "none" => Len(calls[c].sent) = 1
        /\ Parsed(calls[c].result) =>
              calls[c].outcome \in {"ok", "fault"} /\ Len(calls[c].sent) = 1

\* an HTTPX call and a Zeep call each went through build, transport and parsing and
\* returned a parsed response
C11_Witness ==
    /\ \E c \in HttpxCalls :
          /\ calls[c].pc = "done"
          /\ Len(calls[c].sent) = 1
          /\ calls[c].sent[1].params # <<>>
          /\ calls[c].result.kind = "return"
    /\ \E c \in ZeepCalls :
          /\ calls[c].pc = "done"
          /\ Len(calls[c].sent) = 1
          /\ calls[c].result.kind = "return"

\* the calls that are inside the request_with context of a backend
InContext(b) ==
    {c \in 1..Len(calls) :
        calls[c].pc \in {"entered", "transport", "exiting"} /\ calls[c].backend = b}

\* C16: the contexts of a backend that are entered and not exited are those of the
\* calls between entering their context and leaving it, one context per call; the
\* transport is handed a request only by a call that entered its context; so a call
\* that is over has left its context, whatever the outcome of its transport.
C16_ContextPerTransport ==
    /\ \A b \in Backends : ctx[b] = Cardinality(InContext(b))
    /\ \A c \in 1..Len(calls) :
          /\ calls[c].pc \in {"entered", "transport", "exiting"} =>
                calls[c].backend = services[calls[c].svc].backend
          /\ calls[c].sent # <<>> => calls[c].backend # "none"

\* a Zeep call whose transport reported a fault and an HTTPX call whose transport
\* raised are both over, and no context is left entered
C16_Witness ==
    /\ \E c \in ZeepCalls : calls[c].pc = "done" /\ calls[c].outcome = "fault"
    /\ \E c \in HttpxCalls : calls[c].pc = "done" /\ calls[c].outcome = "error"
    /\ \A b \in Backends : ctx[b] = 0

----------------------------------------------------------------------------
(* Claims about the built request's values *)

\* the applications of parameter markers of a kind during a call's build, in order
AppliedOf(c, kind) ==
    SelectSeq(calls[c].applied, LAMBDA e : e.kind = "param" /\ e.mark.kind = kind)

\* the values of the applications made under a name, in order
ValuesUnder(apps, name) ==
    LET sel == SelectSeq(apps, LAMBDA e : e.mark.name = name)
    IN [i \in 1..Len(sel) |-> sel[i].value]

\* C17: the values read back from a built request are the bound values that were
\* applied: the query parameter list holds one (name, value) pair per applied query
\* parameter marker, in the order of application, with the value bound to the marked
\* parameter; the form data has a field for every name a form field marker was applied
\* under, and each field holds the values appended under its name in the order of the
\* appends, repeated names and repeated values included.
C17_RoundTrip ==
    \A c \in Built :
        "query_params" \in DOMAIN calls[c].request =>
            LET qs == AppliedOf(c, "query")
                fs == AppliedOf(c, "form")
                query_params == lists[calls[c].request.query_params]
                form_data == calls[c].request.form_data
            IN /\ AppliedInOrder(c)
               /\ Len(query_params) = Len(qs)
               /\ \A i \in 1..Len(qs) :
                     query_params[i] = <<qs[i].mark.name, calls[c].args[qs[i].param]>>
               /\ DOMAIN form_data = {fs[i].mark.name : i \in 1..Len(fs)}
               /\ \A n \in DOMAIN form_data : form_data[n] = ValuesUnder(fs, n)
               /\ \A i \in 1..Len(fs) : fs[i].value = calls[c].args[fs[i].param]

\* h was called with the same value for its two parameters of form field n, another
\* value for form field m, and a query parameter
C17_Witness ==
    \E c \in Built :
        /\ calls[c].name = <<"h">>
        /\ calls[c].args = [x |-> "1", y |-> "1", z |-> "2", q |-> "2"]
        /\ calls[c].request.form_data = ("n" :> <<"1", "1">>) @@ ("m" :> <<"2">>)
        /\ lists[calls[c].request.query_params] = << <<"q", "2">> >>

\* C18: get_url_path ends in a ValueError when the url_path of the request was never
\* set or was set to the empty string, and returns the stored url_path otherwise;
\* get_method does the same for the method; neither changes the request.
C18_ValidatedOrValueError ==
    /\ held.got_url_path.asked =>
          /\ held.got_url_path.result =
                IF \/ held.got_url_path.before.url_path = None
                   \/ held.got_url_path.before.url_path = Some(<<>>)
                THEN Raise("ValueError")
                ELSE Return(held.got_url_path.before.url_path[1])
          /\ held.got_url_path.after = held.got_url_path.before
    /\ held.got_method.asked =>
          /\ held.got_method.result =
                IF \/ held.got_method.before.method = None
                   \/ held.got_method.before.method = Some("")
                THEN Raise("ValueError")
                ELSE Return(held.got_method.before.method[1])
          /\ held.got_method.after = held.got_method.before

\* a request whose url_path is the empty string and whose method a marker set to GET
\* was asked for both: the path ended in a ValueError, the method came back as stored
C18_Witness ==
    /\ held.got_url_path.asked /\ held.got_method.asked
    /\ held.got_url_path.before.url_path = Some(<<>>)
    /\ held.got_url_path.result = Raise("ValueError")
    /\ held.got_method.before.method = Some("GET")
    /\ held.got_method.result = Return("GET")
    /\ held.request = held.got_method.before

----------------------------------------------------------------------------
(* Claims about marker registration and extraction *)

Extractions == {i \in 1..Len(log) : log[i].op = "extract"}

Registrations == {i \in 1..Len(log) : log[i].op = "mark"}

\* the markers registered on a method by the events, in the order of the events
RegisteredIn(events, method) ==
    LET sel == SelectSeq(events, LAMBDA e : e.op = "mark" /\ e.method = method)
    IN [i \in 1..Len(sel) |-> sel[i].marker]

\* C12 as stated: an extraction leaves every method object as it was, attributes
\* included.
C12_ExtractionChangesNothing ==
    \A i \in Extractions : log[i].after = log[i].before

\* C12, amended: an extraction changes the content of no method's marker sequence;
\* the only change it makes is to attach an empty sequence to the method it is given
\* when that method carried none; it returns the method's sequence; and two
\* extractions of a method with no registration in between return equal results.
C12_ExtractionKeepsSequences ==
    /\ \A i \in Extractions :
          /\ \A m \in MarkMethods : MarkersOf(log[i].after, m) = MarkersOf(log[i].before, m)
          /\ DOMAIN log[i].after = DOMAIN log[i].before \cup {log[i].method}
          /\ log[i].method \notin DOMAIN log[i].before => log[i].after[log[i].method] = <<>>
          /\ log[i].result = MarkersOf(log[i].before, log[i].method)
    /\ \A i \in Extractions, j \in Extractions :
          ( /\ i < j
            /\ log[i].method = log[j].method
            /\ \A k \in i..j : k \notin Registrations )
          => log[i].result = log[j].result

\* a method that was never marked had its markers extracted twice, and a method that
\* was marked had them extracted
C12_Witness ==
    /\ Len(log) = 3
    /\ \E i \in Extractions :
          /\ log[i].method \notin DOMAIN log[i].before
          /\ i + 1 \in Extractions
          /\ log[i + 1].method = log[i].method
          /\ log[i + 1].result = <<>>
    /\ \E m \in MarkMethods : m \in DOMAIN marks /\ marks[m] # <<>>

\* C14: the marker sequence of a method holds the markers registered on it, in the
\* order of their registration, and is empty when the method was never marked; a
\* registration appends its marker to the sequence of its method and changes no other
\* sequence; an extraction returns the markers registered before it.
C14_RegistrationOrder ==
    /\ \A m \in MarkMethods : MarkersOf(marks, m) = RegisteredIn(log, m)
    /\ \A i \in Registrations :
          /\ MarkersOf(log[i].after, log[i].method)
                = Append(MarkersOf(log[i].before, log[i].method), log[i].marker)
          /\ \A m \in MarkMethods \ {log[i].method} :
                MarkersOf(log[i].after, m) = MarkersOf(log[i].before, m)
    /\ \A i \in Extractions :
          log[i].result = RegisteredIn(SubSeq(log, 1, i - 1), log[i].method)

\* two different markers were registered on one method, and the extraction that
\* followed returned them in the order of their registration
C14_Witness ==
    /\ Len(log) = 3
    /\ log[1].op = "mark" /\ log[2].op = "mark" /\ log[3].op = "extract"
    /\ log[1].method = log[2].method /\ log[3].method = log[1].method
    /\ log[1].marker # log[2].marker
    /\ log[3].result = <<log[1].marker, log[2].marker>>

----------------------------------------------------------------------------
(* Claims about wrapping *)

\* the decorators of the wrap_with markers of a marker list, in the order of the list
Decorators(ms) ==
    LET w == SelectSeq(ms, LAMBDA m : m.kind = "wrap")
    IN [i \in 1..Len(w) |-> w[i].dec]

Reverse(s) == [i \in 1..Len(s) |-> s[Len(s) + 1 - i]]

\* the classes as binding generated them from the marker lists
ClassesAsBound ==
    BindAll([cache |-> <<>>, classes |-> <<>>, services |-> <<>>], ServicesToBind,
            marks).classes

\* C13: the layers of every bound method are, from the innermost one, the binder's
\* dispatch, the wrapper of every wrap_with marker of the method once, in the order
\* of the marker sequence (the first marker's innermost, the last marker's
\* outermost), and argument validation around them; calls leave the layers as
\* binding made them, and a call of the method whose arguments validate passes every
\* wrapper once, from the outermost to the innermost, and enters the dispatch after
\* them where the binder's callable takes the instance as `self`.
C13_WrapOrder ==
    /\ \A i \in 1..Len(classes) :
          \A n \in DOMAIN classes[i].attrs :
             classes[i].attrs[n].layers
                = <<"dispatch">> \o Decorators(classes[i].attrs[n].markers) \o <<"validate">>
    /\ classes = ClassesAsBound
    /\ \A c \in 1..Len(calls) :
          calls[c].via = "attribute" =>
             calls[c].entered =
                IF Validates(MemberOfCall(calls[c]), calls[c].args)
                THEN <<"validate">> \o Reverse(Decorators(CallableOf(calls[c]).markers))
                        \o (IF CallableOf(calls[c]).receiver = "self" THEN <<"dispatch">>
                            ELSE <<>>)
                ELSE <<"validate">>

\* methods marked with two different wrappers were bound and called, one of each
\* binder: the first marker's wrapper is the innermost one, both calls passed the
\* wrappers in the same order, and the Zeep call went on into the dispatch
C13_Witness ==
    /\ Len(calls) = 2
    /\ CallableOf(calls[1]).markers = <<WrapWith("d1"), WrapWith("d2")>>
    /\ CallableOf(calls[1]).layers = <<"dispatch", "d1", "d2", "validate">>
    /\ CallableOf(calls[1]).binder = "httpx"
    /\ CallableOf(calls[2]).binder = "zeep"
    /\ calls[1].entered = <<"validate", "d2", "d1">>
    /\ calls[1].result = Raise("TypeError")
    /\ calls[2].entered = <<"validate", "d2", "d1", "dispatch">>

----------------------------------------------------------------------------
(* Claims about method enumeration *)

\* the member's first parameter is the receiver: a plain function with a parameter
HasReceiver(m) == m.kind = "function" /\ Len(m.params) > 0

\* C15: a generated class has a callable for exactly the members of its interface
\* that are callable, not private, and take the receiver as their first parameter.
C15_ExactlyReceiverMethods ==
    \A i \in 1..Len(classes) :
        DOMAIN classes[i].attrs =
            { m.name : m \in { x \in SeqToSet(Members(classes[i].key[1])) :
                                  /\ x.callable
                                  /\ ~startswith_underscore(x.name)
                                  /\ HasReceiver(x) } }

============================================================================
